---- MODULE Spec2Model ----
(***************************************************************************)
(* Model of the unified preflight gate of the OpenFrame CLI bootstrap      *)
(* command: internal/bootstrap/preflight.go (PreflightChecker.CheckAll and *)
(* its helpers) with the flags declared in cmd/bootstrap/bootstrap.go.     *)
(*                                                                         *)
(* One behaviour is one call of CheckAll.  Every external call of the pass *)
(* (memory reading, presence probe, confirmation prompt, installer, Docker *)
(* start, wait for Docker) is a step whose outcome is chosen by the        *)
(* environment; the code between two external calls belongs to the step    *)
(* that precedes it.  `trace` records, in program order, every external    *)
(* call, every message printed and every return.                           *)
(*                                                                         *)
(* The orchestrator that the command calls (bootstrap.NewService), the     *)
(* cluster engine and the convergence monitor are modelled from the design *)
(* document: SpecRun is a sequence of bootstrap runs and `cluster delete`  *)
(* commands on one host, SpecConv is one wait_for_convergence.             *)
(***************************************************************************)
EXTENDS Naturals, Sequences, FiniteSets

VARIABLES
    nonInteractive,     \* PreflightChecker.nonInteractive
    force,              \* PreflightChecker.force
    verbose,            \* PreflightChecker.verbose
    pc,                 \* position of the pass inside CheckAll
    scanIdx,            \* index of the `for _, tool := range tools` loop
    missing,            \* local `missing` of CheckAll
    installable,        \* local `installable` of CheckAll
    dockerNotRunning,   \* local `dockerNotRunning` of CheckAll
    idx,                \* index of the loop of installTools
    result,             \* value returned by CheckAll: <<kind, detail>>
    trace,              \* events of the pass, in program order
    first,              \* result and events of an earlier pass, if any
    host,               \* clusters, controller releases and root applications
    env,                \* what the environment of a bootstrap run does
    run,                \* the bootstrap run in progress
    ends,               \* the earlier bootstrap runs: host before and after
    deletes,            \* the `cluster delete` commands issued, in order
    deadline,           \* deadline of wait_for_convergence, in ticks
    known,              \* the monitor's set of discovered applications
    snapshot,           \* last observed state of every application
    elapsed,            \* ticks spent by the monitor, failed ones included
    observed,           \* ticks whose listing succeeded
    stuckCount,         \* the monitor's "stuck" counter of every application
    since,              \* observed tick at which the application's current
                        \* unhealthy message was first seen
    lastNew,            \* observed tick that last discovered an application
    verdict             \* result of wait_for_convergence

vars == <<nonInteractive, force, verbose, pc, scanIdx, missing, installable,
          dockerNotRunning, idx, result, trace, first,
          host, env, run, ends, deletes,
          deadline, known, snapshot, elapsed, observed, stuckCount, since,
          lastNew, verdict>>

flags == <<nonInteractive, force, verbose>>
locals == <<scanIdx, missing, installable, dockerNotRunning, idx>>
pass == <<pc, result, trace, first, locals>>
outer == <<host, env, run, ends, deletes>>
monitor == <<deadline, known, snapshot, elapsed, observed, stuckCount, since,
             lastNew, verdict>>

----------------------------------------------------------------------------
(* Values *)

\* error values returned by CheckAll; nil is success
nil == <<"nil", "">>
pending == <<"pending", "">>
\* no earlier pass
none == [result |-> pending, trace |-> << >>]
errMemoryConfirmation == <<"failed to get memory confirmation", "">>
errInsufficientMemory == <<"insufficient memory", "Use --force to override">>
errUserConfirmation == <<"failed to get user confirmation", "">>
errNotInstalled == <<"prerequisites not installed", "">>
errDockerConfirmation == <<"failed to get Docker start confirmation", "">>
errStartDocker == <<"failed to start Docker", "">>
errDockerFailedToStart == <<"Docker failed to start", "">>
errDockerNotRunning == <<"Docker is not running", "">>
errInstall(name) == <<"failed to install", name>>

\* what the user can do at a confirmation prompt
Inputs == {"yes", "no", "enter", "interrupt"}

\* outcome of a call of an external installer, of StartDocker, of WaitForDocker
Outcomes == {"ok", "fail"}

YesNo(b) == IF b THEN "yes" ELSE "no"

\* ui.ConfirmActionInteractive(message, defaultValue): the answer of the
\* user, the default on a bare Enter, an error when the prompt is interrupted
ConfirmActionInteractive(default, input) ==
    [confirmed |-> IF input = "enter" THEN default ELSE input = "yes",
     err |-> input = "interrupt"]

\* the tool catalog, in the order of the slice literal
getAllTools ==
    << [Name |-> "Docker", Category |-> "cluster", Installable |-> TRUE],
       [Name |-> "kubectl", Category |-> "cluster", Installable |-> TRUE],
       [Name |-> "k3d", Category |-> "cluster", Installable |-> TRUE],
       [Name |-> "Helm", Category |-> "cluster", Installable |-> TRUE],
       [Name |-> "Git", Category |-> "chart", Installable |-> FALSE],
       [Name |-> "Certificates", Category |-> "chart", Installable |-> TRUE] >>

ToolNames == {getAllTools[i].Name : i \in 1..Len(getAllTools)}

----------------------------------------------------------------------------
(* Events *)

Probe(name, present) == <<"probe", name, IF present THEN "present" ELSE "missing">>
Prompt(q, default, input) == <<"prompt", q, YesNo(default), input>>
Log(level, key) == <<"log", level, key>>
Spinner(level, name) == <<"spinner", level, name>>
Call(fn, arg) == <<"call", fn, arg>>
Ret(fn, kind) == <<"ret", fn, kind>>

----------------------------------------------------------------------------
(* NewPreflightChecker followed by the entry of CheckAll *)

\* variant: the scan is started without the memory check
CheckAllEntryScan == "scan"

\* the cluster names of the host; RunName is the name of the RunConfig
ClusterNames == {"demo", "other"}
RunName == "demo"

\* a host: its clusters, each [name, born] with born = 0 for a cluster that
\* was there before the first run and k for one created by the k-th run,
\* and the clusters that carry a controller release and a root application
emptyHost == [clusters |-> {}, releases |-> {}, roots |-> {}]

\* the k-th bootstrap run, before its first state, on host h
newRun(h, k) ==
    [no |-> k, state |-> "start", before |-> h.clusters, created |-> FALSE,
     handle |-> "none", outcome |-> "running", ledger |-> <<>>]

\* the applications of the controller: the root application given as the
\* entry and the child it declares
Apps == {"root", "infra"}
Entry == "root"
Children(a) == IF a = "root" THEN {"infra"} ELSE {}

\* observed states of an application: sync state, health state, message
SH == [sync |-> "Synced", health |-> "Healthy", msg |-> ""]
OP == [sync |-> "OutOfSync", health |-> "Progressing", msg |-> ""]
D1 == [sync |-> "OutOfSync", health |-> "Degraded", msg |-> "m1"]
D2 == [sync |-> "OutOfSync", health |-> "Degraded", msg |-> "m2"]
M1 == [sync |-> "OutOfSync", health |-> "Missing", msg |-> "m1"]
Observable == {SH, OP, D1, D2, M1}
\* an application of `known` that no tick has observed yet
Unseen == [sync |-> "Unknown", health |-> "Unknown", msg |-> ""]

\* the first phase of CheckAll
CheckAllEntry == "checkMemory"

\* the state of CheckAll when it is called
InitPass ==
    /\ pc = CheckAllEntry
    /\ scanIdx = 1
    /\ missing = <<>>
    /\ installable = <<>>
    /\ dockerNotRunning = FALSE
    /\ idx = 1
    /\ result = pending
    /\ trace = << Call("CheckAll", "") >>
    /\ first = none

\* no bootstrap run, on a host without clusters
InitOuterIdle ==
    /\ host = emptyHost
    /\ env = [failAt |-> "none", cancelAt |-> "never"]
    /\ run = newRun(emptyHost, 1)
    /\ ends = <<>>
    /\ deletes = <<>>

\* the monitor when wait_for_convergence is called with deadline d
InitMonitor(d) ==
    /\ deadline = d
    /\ known = {Entry}
    /\ snapshot = [a \in Apps |-> Unseen]
    /\ elapsed = 0
    /\ observed = 0
    /\ stuckCount = [a \in Apps |-> 0]
    /\ since = [a \in Apps |-> 0]
    /\ lastNew = 0
    /\ verdict = [kind |-> "running", app |-> "", msg |-> "",
                  snapshot |-> [a \in Apps |-> Unseen]]

Init ==
    /\ nonInteractive \in BOOLEAN
    /\ force \in BOOLEAN
    /\ verbose \in BOOLEAN
    /\ InitPass
    /\ InitOuterIdle
    /\ InitMonitor(0)

\* CheckAll returns r after printing evs
Return(r, evs) ==
    /\ pc' = "done"
    /\ result' = r
    /\ trace' = trace \o evs \o << Ret("CheckAll", r[1]) >>

\* CheckAll goes on at position p after printing evs
Goto(p, evs) ==
    /\ pc' = p
    /\ result' = result
    /\ trace' = trace \o evs

----------------------------------------------------------------------------
(* Phase 1: checkMemory *)

\* variant: the non-interactive test is made before the force test
memoryBranchNonInteractiveFirst(sufficient, f, ni) ==
    IF sufficient THEN "sufficient"
    ELSE IF ni THEN "nonInteractive"
    ELSE IF f THEN "force"
    ELSE "confirm"

\* variant: only --force spares the confirmation
memoryBranchIgnoresMode(sufficient, f, ni) ==
    IF sufficient THEN "sufficient"
    ELSE IF f THEN "force"
    ELSE "confirm"

\* variant: an interactive pass goes on like a non-interactive one
memoryBranchNeverConfirm(sufficient, f, ni) ==
    IF sufficient THEN "sufficient"
    ELSE IF f THEN "force"
    ELSE "nonInteractive"

\* the branch checkMemory takes on a reading
memoryBranch(sufficient, f, ni) ==
    IF sufficient THEN "sufficient"
    ELSE IF f THEN "force"
    ELSE IF ni THEN "nonInteractive"
    ELSE "confirm"

checkMemory ==
    /\ pc = "checkMemory"
    /\ \E sufficient \in BOOLEAN :
         LET b == memoryBranch(sufficient, force, nonInteractive)
             read == << Call("checkMemory", ""),
                        <<"memory", "GetMemoryInfo", IF sufficient THEN "sufficient" ELSE "insufficient">> >>
             warn == << Log("warning", "Memory Warning") >>
             ret == << Ret("checkMemory", "nil") >>
         IN  CASE b = "sufficient" -> Goto("scan", read \o ret)
               [] b = "force" ->
                    Goto("scan", read \o warn \o << Log("info", "Continuing anyway (--force specified)") >> \o ret)
               [] b = "nonInteractive" ->
                    Goto("scan", read \o warn \o << Log("info", "Continuing anyway (non-interactive mode)") >> \o ret)
               [] OTHER ->
                    Goto("memoryConfirm", read \o warn \o << Log("info", "Charts may not deploy successfully") >>)
    /\ UNCHANGED <<outer, monitor, first, flags, locals>>

\* variant: the memory confirmation defaults to yes
memoryConfirmDefaultYes == TRUE

\* the default of the "Continue anyway?" confirmation
memoryConfirmDefault == FALSE

checkMemoryConfirm ==
    /\ pc = "memoryConfirm"
    /\ \E input \in Inputs :
         LET a == ConfirmActionInteractive(memoryConfirmDefault, input)
             ask == << Prompt("Continue anyway?", memoryConfirmDefault, input) >>
         IN  IF a.err
             THEN Return(errMemoryConfirmation, ask \o << Ret("checkMemory", "error") >>)
             ELSE IF ~a.confirmed
             THEN Return(errInsufficientMemory, ask \o << Ret("checkMemory", "error") >>)
             ELSE Goto("scan", ask \o << Ret("checkMemory", "nil") >>)
    /\ UNCHANGED <<outer, monitor, first, flags, locals>>

----------------------------------------------------------------------------
(* Phase 2: the scan of the catalog *)

\* variant: every probed tool is appended to the missing list
scanMissingAppendsAll(miss, tool, present) == Append(miss, tool)

\* `missing` after the iteration that probed `tool`
scanMissing(miss, tool, present) == IF present THEN miss ELSE Append(miss, tool)

\* variant: the scan ends at the first missing tool
scanContinuesWhilePresent(i, present) == present /\ i < Len(getAllTools)

\* the range loop over the catalog has a next iteration after iteration i,
\* whatever the probe of iteration i returned
scanContinues(i, present) == i < Len(getAllTools)

\* variant: the pass never returns right after the scan
nothingMissingNever(miss) == FALSE

\* the `len(missing) == 0` test after the scan
nothingMissing(miss) == Len(miss) = 0

\* one iteration of `for _, tool := range tools`; after the last one the
\* `len(missing) == 0` test
CheckAllScan ==
    /\ pc = "scan"
    /\ scanIdx <= Len(getAllTools)
    /\ \E present \in BOOLEAN :
         LET tool == getAllTools[scanIdx]
             miss == scanMissing(missing, tool, present)
             ev == << Probe(tool.Name, present) >>
         IN  /\ missing' = miss
             /\ scanIdx' = scanIdx + 1
             /\ IF scanContinues(scanIdx, present) THEN Goto("scan", ev)
                ELSE IF nothingMissing(miss) THEN Return(nil, ev)
                ELSE Goto("classify", ev)
    /\ UNCHANGED <<outer, monitor, first, flags, installable, dockerNotRunning, idx>>

----------------------------------------------------------------------------
(* Separation of the missing tools, then the entries of phases 3 and 4 *)

HasDocker(tools) == \E i \in 1..Len(tools) : tools[i].Name = "Docker"

\* variant: a Docker whose binary is installed stays on the install list
classifyInstallableKeepDocker(miss, dockerBinary) == miss

\* `installable` after the loop over missing; dockerBinary is the answer of
\* docker.NewDockerInstaller().IsInstalled()
classifyInstallable(miss, dockerBinary) ==
    SelectSeq(miss, LAMBDA t : ~(t.Name = "Docker" /\ dockerBinary))

\* `dockerNotRunning` after the loop over missing
classifyDockerNotRunningAnyDocker(miss, dockerBinary) == HasDocker(miss)

\* dockerNotRunning after the classification loop
classifyDockerNotRunning(miss, dockerBinary) ==
    HasDocker(miss) /\ dockerBinary

\* variant: the consent is asked in every mode
consentModeAlwaysAsk(ni) == "ask"

\* how the consent of phase 3 is obtained
consentMode(ni) == IF ni THEN "auto" ELSE "ask"

\* variant: startDocker asks in every mode
startDockerBranchAlwaysConfirm(ni) == "dockerConfirm"

\* entry of startDocker
startDockerBranch(ni) == IF ni THEN "dockerStart" ELSE "dockerConfirm"

\* Phase 4 of CheckAll, reached with dockerNotRunning = dnr
Phase4(dnr, evs) ==
    IF dnr
    THEN Goto(startDockerBranch(nonInteractive),
              evs \o << Call("startDocker", ""), Log("warning", "Docker is not running") >>
                  \o (IF nonInteractive
                      THEN << Log("info", "Attempting to start Docker automatically (non-interactive mode)") >>
                      ELSE << >>))
    ELSE Return(nil, evs)

\* variant: a dormant Docker is started instead of installing the tools
installPhaseSkippedWhenDormant(inst, dnr) == Len(inst) > 0 /\ ~dnr

\* the `len(installable) > 0` test that opens phase 3, made before the
\* dockerNotRunning test of phase 4
installPhaseNeeded(inst, dnr) == Len(inst) > 0

\* Phase 3 of CheckAll up to the consent, reached with installable = inst
Phase3(inst, dnr, evs) ==
    IF installPhaseNeeded(inst, dnr)
    THEN LET warn == evs \o << Log("warning", "Missing Prerequisites") >>
         IN  IF consentMode(nonInteractive) = "auto"
             THEN Goto("install",
                       warn \o << Log("info", "Auto-installing prerequisites (non-interactive mode)"),
                                  Call("installTools", "") >>)
             ELSE Goto("installConfirm", warn)
    ELSE Phase4(dnr, evs)

CheckAllClassify ==
    /\ pc = "classify"
    /\ \E dockerBinary \in (IF HasDocker(missing) THEN BOOLEAN ELSE {FALSE}) :
         LET inst == classifyInstallable(missing, dockerBinary)
             dnr == classifyDockerNotRunning(missing, dockerBinary)
             ev == IF HasDocker(missing)
                   THEN << <<"binary", "Docker", IF dockerBinary THEN "present" ELSE "missing">> >>
                   ELSE << >>
         IN  /\ installable' = inst
             /\ dockerNotRunning' = dnr
             /\ Phase3(inst, dnr, ev)
    /\ idx' = 1
    /\ UNCHANGED <<outer, monitor, first, flags, scanIdx, missing>>

----------------------------------------------------------------------------
(* Phase 3: consent and installation *)

\* showManualInstructions: one table row per tool of the list
showManualInstructions(tools) ==
    << Log("info", "Installation skipped") >>
    \o [i \in 1..Len(tools) |-> <<"help", tools[i].Name, "manual">>]

\* the default of the install confirmation
installConfirmDefault == TRUE

\* variant: the installers run whatever the answer is
consentBranchIgnoreAnswer(a) ==
    IF a.err THEN "error" ELSE "install"

\* variant: a failed prompt counts as the answer yes
consentBranchErrorIsYes(a) ==
    IF a.err \/ a.confirmed THEN "install" ELSE "decline"

\* what CheckAll does with the answer a of the install confirmation
consentBranch(a) ==
    IF a.err THEN "error"
    ELSE IF a.confirmed THEN "install"
    ELSE "decline"

CheckAllInstallConfirm ==
    /\ pc = "installConfirm"
    /\ \E input \in Inputs :
         LET a == ConfirmActionInteractive(installConfirmDefault, input)
             ask == << Prompt("Would you like me to install them automatically?", installConfirmDefault, input) >>
             b == consentBranch(a)
         IN  CASE b = "error" -> Return(errUserConfirmation, ask)
               [] b = "install" -> Goto("install", ask \o << Call("installTools", "") >>)
               [] OTHER -> Return(errNotInstalled, ask \o showManualInstructions(installable))
    /\ UNCHANGED <<outer, monitor, first, flags, locals>>

\* variant: Git has an installer like the cluster tools
installToolGitInstaller(name, ni, outcome) ==
    CASE name \in {"Docker", "kubectl", "k3d", "Helm", "Git"} ->
           [invoked |-> TRUE, err |-> IF outcome = "ok" THEN "nil" ELSE "install failed"]
      [] name = "Certificates" ->
           IF ni THEN [invoked |-> FALSE, err |-> "nil"]
           ELSE [invoked |-> TRUE, err |-> IF outcome = "ok" THEN "nil" ELSE "install failed"]
      [] OTHER -> [invoked |-> FALSE, err |-> "unknown tool"]

\* installTool: which installer is invoked, if any, and the error returned
installTool(name, ni, outcome) ==
    CASE name \in {"Docker", "kubectl", "k3d", "Helm"} ->
           [invoked |-> TRUE, err |-> IF outcome = "ok" THEN "nil" ELSE "install failed"]
      [] name = "Certificates" ->
           IF ni THEN [invoked |-> FALSE, err |-> "nil"]
           ELSE [invoked |-> TRUE, err |-> IF outcome = "ok" THEN "nil" ELSE "install failed"]
      [] name = "Git" -> [invoked |-> FALSE, err |-> "git is not installed"]
      [] OTHER -> [invoked |-> FALSE, err |-> "unknown tool"]

\* variant: installTools skips a failed tool in every mode
installToolsOnErrorAlwaysContinue(ni) == "continue"

\* variant: installTools stops at the first failed tool in every mode
installToolsOnErrorAlwaysReturn(ni) == "return"

\* what installTools does with a failed installTool
installToolsOnError(ni) == IF ni THEN "continue" ELSE "return"

\* variant: CheckAll goes on after an error of installTools in every mode
CheckAllOnInstallErrorAlwaysContinue(ni) == "continue"

\* what CheckAll does with an error of installTools
CheckAllOnInstallError(ni) == IF ni THEN "continue" ELSE "return"

\* variant: the list is walked from its end
rangeToolReversed(tools, i) == tools[Len(tools) + 1 - i]

\* variant: the loop never advances in the list
rangeToolFirst(tools, i) == tools[1]

\* the tool of iteration i of `for idx, tool := range tools`
rangeTool(tools, i) == tools[i]

\* one iteration of the loop of installTools; after the last one, or on
\* the return of an error, the code of CheckAll up to phase 4
installTools ==
    /\ pc = "install"
    /\ idx <= Len(installable)
    /\ \E outcome \in Outcomes :
         LET tool == rangeTool(installable, idx)
             r == installTool(tool.Name, nonInteractive, outcome)
             call == << Spinner("start", tool.Name), Call("installTool", tool.Name) >>
                     \o (IF tool.Name = "Certificates" /\ nonInteractive
                         THEN << Log("info", "Skipping certificate generation in non-interactive mode") >>
                         ELSE << >>)
                     \o (IF r.invoked THEN << <<"install", tool.Name, outcome>> >> ELSE << >>)
                     \o << Ret("installTool", r.err) >>
             last == idx = Len(installable)
         IN  /\ r.invoked \/ outcome = "ok"
             /\ idx' = idx + 1
             /\ IF r.err # "nil" /\ installToolsOnError(nonInteractive) = "return"
                THEN LET evs == call \o << Spinner("fail", tool.Name), Ret("installTools", "error") >>
                     IN  IF CheckAllOnInstallError(nonInteractive) = "continue"
                         THEN Phase4(dockerNotRunning,
                                     evs \o << Log("warning", "Failed to install some prerequisites"),
                                               Log("info", "Continuing anyway (non-interactive mode)") >>)
                         ELSE Return(errInstall(tool.Name), evs)
                ELSE LET evs == call \o << Spinner(IF r.err # "nil" THEN "warning" ELSE "success", tool.Name) >>
                     IN  IF last THEN Phase4(dockerNotRunning, evs \o << Ret("installTools", "nil") >>)
                         ELSE Goto("install", evs)
    /\ UNCHANGED <<outer, monitor, first, flags, scanIdx, missing, installable, dockerNotRunning>>

----------------------------------------------------------------------------
(* Phase 4: startDocker *)

\* variant: a failed start is an error in every mode
startDockerOnFailureAlwaysReturn(ni) == "return"

\* variant: a failed start is only a warning in every mode
startDockerOnFailureAlwaysWarn(ni) == "warn"

\* what startDocker does when StartDocker or WaitForDocker fails
startDockerOnFailure(ni) == IF ni THEN "warn" ELSE "return"

showDockerStartInstructions ==
    << Log("info", "Please start Docker manually and try again") >>

\* the default of the Docker start confirmation
dockerConfirmDefault == TRUE

startDockerConfirm ==
    /\ pc = "dockerConfirm"
    /\ \E input \in Inputs :
         LET a == ConfirmActionInteractive(dockerConfirmDefault, input)
             ask == << Prompt("Would you like me to start Docker for you?", dockerConfirmDefault, input) >>
         IN  IF a.err THEN Return(errDockerConfirmation, ask \o << Ret("startDocker", "error") >>)
             ELSE IF a.confirmed THEN Goto("dockerStart", ask)
             ELSE Return(errDockerNotRunning,
                         ask \o showDockerStartInstructions \o << Ret("startDocker", "error") >>)
    /\ UNCHANGED <<outer, monitor, first, flags, locals>>

startDockerStart ==
    /\ pc = "dockerStart"
    /\ \E outcome \in Outcomes :
         LET ev == << <<"start", "Docker", outcome>> >>
         IN  IF outcome = "ok" THEN Goto("dockerWait", ev \o << Spinner("start", "Docker") >>)
             ELSE IF startDockerOnFailure(nonInteractive) = "warn"
             THEN Return(nil, ev \o << Log("warning", "Could not start Docker automatically"),
                                       Log("info", "Docker must be started manually"),
                                       Ret("startDocker", "nil") >>)
             ELSE Return(errStartDocker, ev \o << Log("error", "Failed to start Docker"),
                                                  Log("info", "Please start Docker Desktop manually and try again"),
                                                  Ret("startDocker", "error") >>)
    /\ UNCHANGED <<outer, monitor, first, flags, locals>>

startDockerWait ==
    /\ pc = "dockerWait"
    /\ \E outcome \in Outcomes :
         LET ev == << <<"wait", "Docker", outcome>> >>
         IN  IF outcome = "ok"
             THEN Return(nil, ev \o << Spinner("success", "Docker"), Ret("startDocker", "nil") >>)
             ELSE IF startDockerOnFailure(nonInteractive) = "warn"
             THEN Return(nil, ev \o << Spinner("warning", "Docker"), Ret("startDocker", "nil") >>)
             ELSE Return(errDockerFailedToStart,
                         ev \o << Spinner("fail", "Docker"), Ret("startDocker", "error") >>)
    /\ UNCHANGED <<outer, monitor, first, flags, locals>>

----------------------------------------------------------------------------
Next ==
    \/ checkMemory
    \/ checkMemoryConfirm
    \/ CheckAllScan
    \/ CheckAllClassify
    \/ CheckAllInstallConfirm
    \/ installTools
    \/ startDockerConfirm
    \/ startDockerStart
    \/ startDockerWait

Spec == Init /\ [][Next]_vars

\* a pass whose external calls all return: the step that waits for a
\* probe, an answer, an installer, the Docker start or the wait is taken
SpecLive == Init /\ [][Next]_vars /\ WF_vars(Next)

----------------------------------------------------------------------------
(* Two passes on the same host *)

\* the events of a pass up to the end of its scan
ScanPrefix(t) ==
    LET lastTool == getAllTools[Len(getAllTools)].Name
        end == CHOOSE i \in DOMAIN t : t[i][1] = "probe" /\ t[i][2] = lastTool
    IN  SubSeq(t, 1, end)

\* a second call of CheckAll, on a checker built with the same flags, whose
\* memory reading, memory answer and presence probes return what they
\* returned in the finished pass: it stands where that pass stood at the
\* end of its scan
SecondPass ==
    /\ pc = "done"
    /\ first = none
    /\ scanIdx > Len(getAllTools)
    /\ Len(missing) > 0
    /\ first' = [result |-> result, trace |-> trace]
    /\ pc' = "classify"
    /\ result' = pending
    /\ trace' = ScanPrefix(trace)
    /\ installable' = <<>>
    /\ dockerNotRunning' = FALSE
    /\ idx' = 1
    /\ UNCHANGED <<outer, monitor, flags, scanIdx, missing>>

NextPair ==
    \/ checkMemory
    \/ checkMemoryConfirm
    \/ CheckAllScan
    \/ CheckAllClassify
    \/ CheckAllInstallConfirm
    \/ installTools
    \/ startDockerConfirm
    \/ startDockerStart
    \/ startDockerWait
    \/ SecondPass

SpecPair == Init /\ [][NextPair]_vars

----------------------------------------------------------------------------
(* Two passes that differ in --force *)

\* the events of a pass that are the return of an external call
IsExternal(e) ==
    e[1] \in {"memory", "probe", "binary", "prompt", "install", "start", "wait"}

\* every external call of this step that the earlier pass made too
\* returns what it returned there
Replayed ==
    \/ first = none
    \/ \A i \in (Len(trace) + 1)..Len(trace'), j \in DOMAIN first.trace :
          (IsExternal(trace'[i]) /\ trace'[i][1] = first.trace[j][1]
                                 /\ trace'[i][2] = first.trace[j][2]) =>
              trace'[i] = first.trace[j]

\* CheckAll is called again on a checker built with the other value of
\* force and the same nonInteractive and verbose
OtherForce ==
    /\ pc = "done"
    /\ first = none
    /\ first' = [result |-> result, trace |-> trace]
    /\ force' = ~force
    /\ pc' = CheckAllEntry
    /\ scanIdx' = 1
    /\ missing' = <<>>
    /\ installable' = <<>>
    /\ dockerNotRunning' = FALSE
    /\ idx' = 1
    /\ result' = pending
    /\ trace' = << Call("CheckAll", "") >>
    /\ UNCHANGED <<outer, monitor, nonInteractive, verbose>>

\* a pass, then the pass with the other value of force on the same host
\* with the same user: the external calls return the same
NextForce ==
    \/ checkMemory /\ Replayed
    \/ checkMemoryConfirm /\ Replayed
    \/ CheckAllScan /\ Replayed
    \/ CheckAllClassify /\ Replayed
    \/ CheckAllInstallConfirm /\ Replayed
    \/ installTools /\ Replayed
    \/ startDockerConfirm /\ Replayed
    \/ startDockerStart /\ Replayed
    \/ startDockerWait /\ Replayed
    \/ OtherForce

SpecForce == Init /\ [][NextForce]_vars

----------------------------------------------------------------------------
(* The bootstrap orchestrator and the cluster engine *)

\* a bootstrap command is run at most MaxRuns times in a row, and followed
\* by at most MaxDeletes `cluster delete` commands
MaxRuns == 2
MaxDeletes == 2

\* the step of a run that fails, and the state in which a cancel signal
\* arrives; the runs of one behaviour meet the same environment
FailPoints == {"none", "preflight", "provisioner", "api", "controller",
               "register", "timeout", "stuck"}
CancelPoints == {"never", "preflight", "create_cluster", "install_controller",
                 "register_root", "await_convergence", "summarize"}

\* the cluster of a run: the name of its RunConfig, born in that run
OwnCluster(r) == [name |-> RunName, born |-> r.no]

\* variant: create does not list the clusters before creating
nameConflictUnchecked(cs, name) == FALSE

\* create lists the clusters first: a cluster of that name already exists
nameConflict(cs, name) == \E c \in cs : c.name = name

\* create(spec) of the cluster engine, called by run k: the host it
\* leaves, the error and the handle
ClusterCreate(h, name, fail, k) ==
    IF nameConflict(h.clusters, name)
    THEN [host |-> h, err |-> "cluster.name-conflict", handle |-> "none"]
    ELSE IF fail = "provisioner"
    THEN [host |-> h, err |-> "cluster.provisioner", handle |-> "none"]
    ELSE LET h2 == [h EXCEPT !.clusters = @ \cup {[name |-> name, born |-> k]}]
         IN  IF fail = "api"
             THEN [host |-> h2, err |-> "cluster.api-unreachable", handle |-> "none"]
             ELSE [host |-> h2, err |-> "nil", handle |-> name]

\* variant: deleting a missing cluster is an error
deleteErrNotFound(found) == IF found THEN "nil" ELSE "cluster.not-found"

\* the error of delete(name): success, whether or not the cluster was found
deleteErr(found) == "nil"

\* delete(name) of the cluster engine
ClusterDelete(h, name) ==
    LET gone == {c \in h.clusters : c.name = name}
    IN  [host |-> [clusters |-> h.clusters \ gone,
                   releases |-> h.releases \ gone,
                   roots |-> h.roots \ gone],
         err |-> deleteErr(gone # {}),
         info |-> IF gone = {} THEN "not found" ELSE "deleted"]

\* uninstall_all(handle) of the chart engine: the root application, then
\* the controller release
UninstallAll(h, name) ==
    [h EXCEPT !.roots = {c \in @ : c.name # name},
              !.releases = {c \in @ : c.name # name}]

\* the decision of the PreflightResult
preflightDecision(fail) == IF fail = "preflight" THEN "abort" ELSE "proceed"

\* variant: the orchestrator goes on whatever the preflight decided
proceedsAlways(decision) == TRUE

\* the orchestrator proceeds only if the decision is `proceed`
proceeds(decision) == decision = "proceed"

\* variant: only --force disables the rollback
rollbackPolicyIgnoresMode(ni, f) == ~f

\* rollback on failure happens only if --force is not set and the run is
\* interactive
rollbackPolicy(ni, f) == ~f /\ ~ni

\* the failures whose recovery policy is "no rollback by default"
noRollbackKinds == {"chart.stuck", "convergence.timeout"}

\* a run that ends with `kind` rolls back: always on cancel, on a failure
\* by the policy
rollbackEnabled(kind, ni, f) ==
    \/ kind = "canceled"
    \/ rollbackPolicy(ni, f) /\ kind \notin noRollbackKinds

\* variant: the rollback does not ask whether this run created the cluster
rollbackNeededAlways(r) == TRUE

\* there is something to roll back: the cluster was created in this run
rollbackNeeded(r) == r.created

\* the run leaves its state with outcome `out` for the state `next`; the
\* ledger gets the end of the one and the begin of the other
Step(r, out, next) ==
    [r EXCEPT !.state = next,
              !.ledger = @ \o << <<r.state, "end", out>> >> \o
                         (IF next = "end" THEN <<>>
                          ELSE << <<next, "begin", "">> >>)]

\* the run aborts with the error `kind`, through the rollback if there is one
Abort(r, kind, ni, f) ==
    Step([r EXCEPT !.outcome = kind], kind,
         IF rollbackNeeded(r) /\ rollbackEnabled(kind, ni, f)
         THEN "rollback" ELSE "end")

\* the run is in state s and no cancel signal arrives there
Uncanceled(s) == run.state = s /\ env.cancelAt # s

InitRun ==
    /\ nonInteractive \in BOOLEAN
    /\ force \in BOOLEAN
    /\ verbose = FALSE
    /\ InitPass
    /\ \E pre \in SUBSET ClusterNames :
          host = [emptyHost EXCEPT
                     !.clusters = {[name |-> n, born |-> 0] : n \in pre}]
    /\ env \in [failAt : FailPoints, cancelAt : CancelPoints]
    /\ run = newRun(host, 1)
    /\ ends = <<>>
    /\ deletes = <<>>
    /\ InitMonitor(0)

\* start -> preflight
RunBegin ==
    /\ run.state = "start"
    /\ run' = Step(run, "ok", "preflight")
    /\ UNCHANGED <<host, env, ends, deletes, monitor, flags, pass>>

\* preflight -> create_cluster, or abort
RunPreflight ==
    /\ Uncanceled("preflight")
    /\ LET decision == preflightDecision(env.failAt)
       IN  run' = IF proceeds(decision)
                  THEN Step(run, decision, "create_cluster")
                  ELSE Abort(run, "preflight.abort", nonInteractive, force)
    /\ UNCHANGED <<host, env, ends, deletes, monitor, flags, pass>>

\* create_cluster -> install_controller, or abort with a hint, or abort
\* through rollback_cluster
RunCreateCluster ==
    /\ Uncanceled("create_cluster")
    /\ LET c == ClusterCreate(host, RunName, env.failAt, run.no)
           r == [run EXCEPT !.created = (c.host.clusters # host.clusters),
                            !.handle = c.handle]
       IN  /\ host' = c.host
           /\ run' = IF c.err = "nil"
                     THEN Step(r, "ok", "install_controller")
                     ELSE Abort(r, c.err, nonInteractive, force)
    /\ UNCHANGED <<env, ends, deletes, monitor, flags, pass>>

\* install_controller -> register_root; a failed release is retried once,
\* then the run aborts through rollback_cluster
RunInstallController ==
    /\ Uncanceled("install_controller")
    /\ IF env.failAt = "controller"
       THEN /\ run' = Abort([run EXCEPT !.ledger =
                                Append(@, <<"install_controller", "warn", "retry">>)],
                            "chart.install", nonInteractive, force)
            /\ host' = host
       ELSE /\ run' = Step(run, "ok", "register_root")
            /\ host' = [host EXCEPT !.releases = @ \cup {OwnCluster(run)}]
    /\ UNCHANGED <<env, ends, deletes, monitor, flags, pass>>

\* register_root -> await_convergence, or abort through rollback_release
RunRegisterRoot ==
    /\ Uncanceled("register_root")
    /\ IF env.failAt = "register"
       THEN /\ run' = Abort(run, "chart.install", nonInteractive, force)
            /\ host' = host
       ELSE /\ run' = Step(run, "ok", "await_convergence")
            /\ host' = [host EXCEPT !.roots = @ \cup {OwnCluster(run)}]
    /\ UNCHANGED <<env, ends, deletes, monitor, flags, pass>>

\* await_convergence -> summarize, or abort with the snapshot
RunAwaitConvergence ==
    /\ Uncanceled("await_convergence")
    /\ run' = IF env.failAt = "timeout"
              THEN Abort(run, "convergence.timeout", nonInteractive, force)
              ELSE IF env.failAt = "stuck"
              THEN Abort(run, "chart.stuck", nonInteractive, force)
              ELSE Step(run, "ok", "summarize")
    /\ UNCHANGED <<host, env, ends, deletes, monitor, flags, pass>>

\* summarize -> end
RunSummarize ==
    /\ Uncanceled("summarize")
    /\ run' = Step([run EXCEPT !.outcome = "ok"], "ok", "end")
    /\ UNCHANGED <<host, env, ends, deletes, monitor, flags, pass>>

\* a cancel signal in the current state: no new work, then the rollback of
\* what this run created
RunCancel ==
    /\ run.state = env.cancelAt
    /\ run' = Abort(run, "canceled", nonInteractive, force)
    /\ UNCHANGED <<host, env, ends, deletes, monitor, flags, pass>>

\* rollback_release then rollback_cluster: uninstall_all, then delete
RunRollback ==
    /\ run.state = "rollback"
    /\ host' = ClusterDelete(UninstallAll(host, RunName), RunName).host
    /\ run' = Step(run, "ok", "end")
    /\ UNCHANGED <<env, ends, deletes, monitor, flags, pass>>

\* the same bootstrap command is run again on the host the run left
RunAgain ==
    /\ run.state = "end"
    /\ deletes = <<>>
    /\ Len(ends) + 1 < MaxRuns
    /\ ends' = Append(ends, [before |-> run.before, host |-> host,
                             outcome |-> run.outcome])
    /\ run' = newRun(host, run.no + 1)
    /\ UNCHANGED <<host, env, deletes, monitor, flags, pass>>

\* the command `cluster delete NAME`, after the bootstrap runs
ClusterDeleteCmd ==
    /\ run.state = "end"
    /\ Len(deletes) < MaxDeletes
    /\ \E n \in ClusterNames :
          LET d == ClusterDelete(host, n)
          IN  /\ host' = d.host
              /\ deletes' = Append(deletes,
                                [name |-> n, before |-> host, after |-> d.host,
                                 err |-> d.err, info |-> d.info])
    /\ UNCHANGED <<env, run, ends, monitor, flags, pass>>

NextRun ==
    \/ RunBegin
    \/ RunPreflight
    \/ RunCreateCluster
    \/ RunInstallController
    \/ RunRegisterRoot
    \/ RunAwaitConvergence
    \/ RunSummarize
    \/ RunCancel
    \/ RunRollback
    \/ RunAgain
    \/ ClusterDeleteCmd

SpecRun == InitRun /\ [][NextRun]_vars

----------------------------------------------------------------------------
(* The convergence monitor *)

\* the deadlines tried, in ticks
MaxDeadline == 7

Unhealthy(s) == s.health \in {"Degraded", "Missing"}
SameTrouble(prev, now) == Unhealthy(prev) /\ Unhealthy(now) /\ prev.msg = now.msg

\* variant: the children of the entry are not waited for
convergedEntryOnly(kn, snap) == snap[Entry] = SH

\* all in `known` are (Synced, Healthy)
converged(kn, snap) == \A a \in kn : snap[a] = SH

\* variant: a newly observed application does not reset the counter
nextStuckCountNoReset(cnt, prev, now, isNew) ==
    IF ~Unhealthy(now) THEN 0
    ELSE IF SameTrouble(prev, now) THEN cnt + 1
    ELSE 1

\* the "stuck" counter of an application after a tick that observed it in
\* state `now` after `prev`; isNew: the tick discovered an application
nextStuckCount(cnt, prev, now, isNew) ==
    IF isNew \/ ~Unhealthy(now) THEN 0
    ELSE IF SameTrouble(prev, now) THEN cnt + 1
    ELSE 1

\* the applications that stayed unhealthy with one message for at least 5
\* consecutive ticks without a new application
stuckApps(kn, cnt) == {a \in kn : cnt[a] >= 5}

Verdict(kind, app, msg, snap) ==
    [kind |-> kind, app |-> app, msg |-> msg, snapshot |-> snap]

InitConv ==
    /\ nonInteractive = FALSE
    /\ force = FALSE
    /\ verbose = FALSE
    /\ InitPass
    /\ InitOuterIdle
    /\ \E d \in 0..MaxDeadline : InitMonitor(d)

\* one tick whose listing succeeds: every known application is observed,
\* the children found in the child lists join `known`, then the terminal
\* conditions are tested
MonitorTick ==
    /\ verdict.kind = "running"
    /\ elapsed < deadline
    /\ \E obs \in [known -> Observable],
          found \in SUBSET (UNION {Children(a) : a \in known}) :
          LET isNew == found \ known # {}
              kn == known \cup found
              snap == [a \in Apps |-> IF a \in known THEN obs[a] ELSE snapshot[a]]
              cnt == [a \in Apps |->
                         IF a \in known
                         THEN nextStuckCount(stuckCount[a], snapshot[a], obs[a], isNew)
                         ELSE 0]
          IN  /\ known' = kn
              /\ snapshot' = snap
              /\ stuckCount' = cnt
              /\ since' = [a \in Apps |->
                              IF a \in known /\ Unhealthy(obs[a])
                              THEN IF SameTrouble(snapshot[a], obs[a])
                                   THEN since[a] ELSE observed + 1
                              ELSE 0]
              /\ lastNew' = IF isNew THEN observed + 1 ELSE lastNew
              /\ IF converged(kn, snap)
                 THEN verdict' = Verdict("ok", "", "", snap)
                 ELSE IF stuckApps(kn, cnt) # {}
                 THEN \E a \in stuckApps(kn, cnt) :
                         verdict' = Verdict("stuck", a, snap[a].msg, snap)
                 ELSE verdict' = verdict
    /\ elapsed' = elapsed + 1
    /\ observed' = observed + 1
    /\ UNCHANGED <<deadline, outer, flags, pass>>

\* one tick whose listing fails with a transient error: it is retried after
\* the backoff and does not count toward the "stuck" counter
MonitorListError ==
    /\ verdict.kind = "running"
    /\ elapsed < deadline
    /\ elapsed' = elapsed + 1
    /\ UNCHANGED <<deadline, known, snapshot, observed, stuckCount, since,
                   lastNew, verdict, outer, flags, pass>>

\* the deadline is reached: timeout with the last snapshot; with a
\* deadline of 0 that is the initial snapshot, before any request
MonitorDeadline ==
    /\ verdict.kind = "running"
    /\ elapsed >= deadline
    /\ verdict' = Verdict("timeout", "", "", snapshot)
    /\ UNCHANGED <<deadline, known, snapshot, elapsed, observed, stuckCount,
                   since, lastNew, outer, flags, pass>>

NextConv ==
    \/ MonitorTick
    \/ MonitorListError
    \/ MonitorDeadline

SpecConv == InitConv /\ [][NextConv]_vars

----------------------------------------------------------------------------
(* Properties of a pass, stated over the trace *)

QMemory == "Continue anyway?"
QInstall == "Would you like me to install them automatically?"
QDocker == "Would you like me to start Docker for you?"

Has(e) == \E i \in DOMAIN trace : trace[i] = e
PromptsOf(q) == {i \in DOMAIN trace : trace[i][1] = "prompt" /\ trace[i][2] = q}
Answered(q, input) == \E i \in PromptsOf(q) : trace[i][4] = input
\* the prompt q was answered yes, explicitly or by its default
Consented(q) ==
    \E i \in PromptsOf(q) :
        trace[i][4] = "yes" \/ (trace[i][4] = "enter" /\ trace[i][3] = "yes")

MemInsufficient == Has(<<"memory", "GetMemoryInfo", "insufficient">>)
ScanEntered == pc = "scan" \/ Has(Probe("Docker", TRUE)) \/ Has(Probe("Docker", FALSE))

IsInstallCall(e) == e[1] = "call" /\ e[2] = "installTool"
\* the install attempts of the pass, in order
InstallCalls == SelectSeq(trace, IsInstallCall)
InstallFailureAt(i) ==
    trace[i][1] = "ret" /\ trace[i][2] = "installTool" /\ trace[i][3] # "nil"

\* every action of a pass that is not part of the memory check
OtherAction(e) ==
    \/ e[1] \in {"probe", "binary", "install", "start", "wait"}
    \/ e[1] = "prompt" /\ e[2] \in {QInstall, QDocker}
    \/ e[1] = "call" /\ e[2] \in {"installTools", "installTool", "startDocker"}

\* the tool was found by the scan, or its installer (for Docker also the
\* start followed by the wait) reported success in this pass
Available(name) ==
    \/ Has(Probe(name, TRUE))
    \/ Has(<<"install", name, "ok">>)
    \/ name = "Docker" /\ Has(<<"start", "Docker", "ok">>) /\ Has(<<"wait", "Docker", "ok">>)

\* C1: every probe, install prompt, installer call, Docker prompt and
\* Docker start of a pass comes after the return of the memory check, and
\* a pass whose memory check returned an error has none of them.
C1_MemoryCheckFirst ==
    /\ \A i \in DOMAIN trace :
         OtherAction(trace[i]) =>
            \E j \in 1..(i - 1) : trace[j] = Ret("checkMemory", "nil")
    /\ Has(Ret("checkMemory", "error")) =>
         /\ pc = "done"
         /\ \A i \in DOMAIN trace : ~OtherAction(trace[i])

C1_Witness ==
    /\ Consented(QMemory)
    /\ Has(<<"install", "kubectl", "ok">>)
    /\ Has(<<"start", "Docker", "ok">>)

\* C2 (as stated): whenever CheckAll returns success, in either mode, every
\* tool of the catalog was found present or was made available in the pass.
C2_SuccessMeansAllAvailable ==
    (pc = "done" /\ result = nil) => \A n \in ToolNames : Available(n)

\* C2 (amended): whenever CheckAll returns success in interactive mode,
\* every tool of the catalog was found present or was made available in
\* the pass by an installer, or a Docker start, that reported success.
C2_InteractiveSuccessMeansAllAvailable ==
    (~nonInteractive /\ pc = "done" /\ result = nil) =>
        \A n \in ToolNames : Available(n)

C2_Witness ==
    /\ ~nonInteractive
    /\ pc = "done"
    /\ result = nil
    /\ Has(<<"install", "Certificates", "ok">>)
    /\ Has(<<"wait", "Docker", "ok">>)

\* C3: a pass whose scan found Git missing ends with an error, in either
\* mode and whatever the answers of the user.
C3_GitMissingAborts ==
    (pc = "done" /\ Has(Probe("Git", FALSE))) => result # nil

\* C4: on an insufficient reading with force set, or with force unset in
\* non-interactive mode, the memory check warns, asks nothing, returns nil
\* and the pass enters the scan; the force message is the one printed when
\* both flags are set.
C4_MemoryWarnOnly ==
    (MemInsufficient /\ (force \/ nonInteractive)) =>
        /\ PromptsOf(QMemory) = {}
        /\ pc # "memoryConfirm"
        /\ Has(Log("warning", "Memory Warning"))
        /\ Has(Ret("checkMemory", "nil"))
        /\ ~Has(Ret("checkMemory", "error"))
        /\ ScanEntered
        /\ Has(Log("info", "Continuing anyway (--force specified)")) <=> force
        /\ Has(Log("info", "Continuing anyway (non-interactive mode)")) <=> ~force

C4_Witness ==
    /\ MemInsufficient
    /\ force
    /\ nonInteractive
    /\ Has(Probe("Git", TRUE))

\* C5: on an insufficient reading with force unset in interactive mode the
\* memory check asks "Continue anyway?" exactly once, with default no; the
\* pass enters the scan exactly when the answer is yes, and the answer no
\* ends the pass with the insufficient-memory error.
C5_MemoryConfirm ==
    (MemInsufficient /\ ~force /\ ~nonInteractive) =>
        /\ Cardinality(PromptsOf(QMemory)) = (IF pc = "memoryConfirm" THEN 0 ELSE 1)
        /\ \A i \in PromptsOf(QMemory) : trace[i][3] = "no"
        /\ ScanEntered <=> Answered(QMemory, "yes")
        /\ Answered(QMemory, "no") => (pc = "done" /\ result = errInsufficientMemory)

C5_Witness ==
    /\ MemInsufficient
    /\ Answered(QMemory, "yes")
    /\ Has(Probe("Docker", TRUE))

\* C6: in interactive mode a failed install attempt ends the pass with the
\* error naming the tool of that attempt; no install attempt, no Docker
\* prompt and no Docker start follows it.
C6_InteractiveFirstFailureAborts ==
    ~nonInteractive =>
        \A i \in DOMAIN trace :
            InstallFailureAt(i) =>
                /\ pc = "done"
                /\ result = errInstall(InstallCalls[Len(InstallCalls)][3])
                /\ \A k \in DOMAIN trace : k > i => ~OtherAction(trace[k])
                /\ \A k \in 1..(i - 1) : ~InstallFailureAt(k)

C6_Witness ==
    /\ ~nonInteractive
    /\ Has(<<"install", "kubectl", "fail">>)
    /\ dockerNotRunning
    /\ Len(InstallCalls) < Len(installable)

\* C7: in non-interactive mode a pass that reaches the installers attempts
\* every tool of the install list once, in the order of the list, whatever
\* the attempts of earlier tools returned, and no failed attempt of a
\* cluster or chart tool makes the pass return an error.
C7_NonInteractiveInstallContinues ==
    nonInteractive =>
        /\ (pc = "done" /\ Has(Call("installTools", ""))) =>
              /\ Len(InstallCalls) = Len(installable)
              /\ \A k \in 1..Len(installable) : InstallCalls[k][3] = installable[k].Name
        /\ \A i \in DOMAIN trace :
              InstallFailureAt(i) =>
                  /\ result \in {pending, nil}
                  /\ pc = "done" => result = nil

C7_Witness ==
    /\ nonInteractive
    /\ pc = "done"
    /\ Has(<<"install", "kubectl", "fail">>)
    /\ Has(Ret("installTool", "git is not installed"))
    /\ Has(Call("installTool", "Certificates"))

AutoConsent == Has(Log("info", "Auto-installing prerequisites (non-interactive mode)"))

\* C8: the install consent is decided exactly when the install list is not
\* empty: automatically and without a prompt in non-interactive mode, by
\* one prompt with default yes in interactive mode.  Install attempts are
\* made only after consent; a decline shows the manual instructions of the
\* listed tools and ends the pass with "prerequisites not installed",
\* without install attempt, Docker prompt or Docker start.
C8_InstallConsent ==
    /\ pc # "installConfirm" =>
          (Len(installable) > 0 <=> (AutoConsent \/ PromptsOf(QInstall) # {}))
    /\ nonInteractive => PromptsOf(QInstall) = {}
    /\ ~nonInteractive =>
          /\ ~AutoConsent
          /\ Cardinality(PromptsOf(QInstall)) <= 1
          /\ \A i \in PromptsOf(QInstall) : trace[i][3] = "yes"
    /\ Len(InstallCalls) > 0 => (AutoConsent \/ Consented(QInstall))
    /\ Answered(QInstall, "no") =>
          /\ pc = "done"
          /\ result = errNotInstalled
          /\ \A k \in 1..Len(installable) : Has(<<"help", installable[k].Name, "manual">>)
          /\ \A i \in DOMAIN trace :
                OtherAction(trace[i]) => trace[i][1] \in {"probe", "binary"} \/ trace[i][2] = QInstall

C8_Witness ==
    /\ Answered(QInstall, "no")
    /\ dockerNotRunning
    /\ Len(installable) > 1

\* C9: in non-interactive mode no confirmation is requested at any point
\* of the pass.
C9_NonInteractiveNeverAsks ==
    nonInteractive =>
        /\ pc \notin {"memoryConfirm", "installConfirm", "dockerConfirm"}
        /\ \A i \in DOMAIN trace : trace[i][1] # "prompt"

C9_Witness ==
    /\ nonInteractive
    /\ ~force
    /\ MemInsufficient
    /\ Has(<<"install", "k3d", "fail">>)
    /\ Has(<<"start", "Docker", "fail">>)

\* C10: in interactive mode, once the pass reaches startDocker (Docker is
\* dormant and the install phase is over) it asks one confirmation; the
\* pass succeeds exactly when the user consents, the start succeeds and the
\* wait succeeds; a decline, a failed start and a failed wait each end the
\* pass with their error.
C10_InteractiveDockerStart ==
    (~nonInteractive /\ Has(Call("startDocker", ""))) =>
        /\ dockerNotRunning
        /\ Cardinality(PromptsOf(QDocker)) = (IF pc = "dockerConfirm" THEN 0 ELSE 1)
        /\ pc = "done" =>
              (result = nil <=>
                  (Consented(QDocker) /\ Has(<<"start", "Docker", "ok">>) /\ Has(<<"wait", "Docker", "ok">>)))
        /\ Answered(QDocker, "no") =>
              (pc = "done" /\ result = errDockerNotRunning /\ ~Has(<<"start", "Docker", "ok">>)
                  /\ ~Has(<<"start", "Docker", "fail">>))
        /\ Has(<<"start", "Docker", "fail">>) => (pc = "done" /\ result = errStartDocker)
        /\ Has(<<"wait", "Docker", "fail">>) => (pc = "done" /\ result = errDockerFailedToStart)

C10_Witness ==
    /\ ~nonInteractive
    /\ pc = "done"
    /\ result = nil
    /\ Has(Call("installTools", ""))
    /\ Answered(QDocker, "enter")
    /\ Has(<<"wait", "Docker", "ok">>)

IsStart(e) == e[1] = "start" /\ e[2] = "Docker"

\* C11: in non-interactive mode, once the pass reaches startDocker it asks
\* nothing and attempts the start; a failed start and a failed wait are
\* reported as warnings and the pass returns success.
C11_NonInteractiveDockerStart ==
    (nonInteractive /\ Has(Call("startDocker", ""))) =>
        /\ dockerNotRunning
        /\ PromptsOf(QDocker) = {}
        /\ pc \in {"dockerStart", "dockerWait", "done"}
        /\ pc # "dockerStart" => \E i \in DOMAIN trace : IsStart(trace[i])
        /\ pc = "done" => result = nil
        /\ Has(<<"start", "Docker", "fail">>) =>
              (pc = "done" /\ Has(Log("warning", "Could not start Docker automatically")))
        /\ Has(<<"wait", "Docker", "fail">>) =>
              (pc = "done" /\ Has(Spinner("warning", "Docker")))

C11_Witness ==
    /\ nonInteractive
    /\ Has(<<"wait", "Docker", "fail">>)
    /\ result = nil

\* C12: a failed start attempt is followed by a second start attempt in
\* the same pass, before the pass ends.
C12_StartRetriedOnce ==
    pc = "done" =>
        \A i \in DOMAIN trace :
            trace[i] = <<"start", "Docker", "fail">> =>
                \E j \in DOMAIN trace : j # i /\ IsStart(trace[j])

Classified ==
    /\ pc \notin {"checkMemory", "memoryConfirm", "scan", "classify"}
    /\ Len(missing) > 0

\* C13: after the classification Docker is dormant exactly when its probe
\* found it not running and its binary is installed; the install list is
\* the missing list, in order, without a dormant Docker, so Docker is never
\* both dormant and on the install list, and every other missing tool is on
\* the install list.
C13_Classification ==
    /\ dockerNotRunning => Classified
    /\ Has(<<"binary", "Docker", "present">>) \/ Has(<<"binary", "Docker", "missing">>)
          => Has(Probe("Docker", FALSE))
    /\ Classified =>
          /\ dockerNotRunning <=>
                (Has(Probe("Docker", FALSE)) /\ Has(<<"binary", "Docker", "present">>))
          /\ installable =
                SelectSeq(missing, LAMBDA t : t.Name # "Docker" \/ ~dockerNotRunning)
          /\ ~(dockerNotRunning /\ HasDocker(installable))
          /\ \A k \in 1..Len(missing) :
                missing[k].Name # "Docker" =>
                    \E m \in 1..Len(installable) : installable[m] = missing[k]

C13_Witness ==
    /\ Classified
    /\ dockerNotRunning
    /\ Len(installable) > 1

\* C14: in non-interactive mode the certificate installer is never invoked,
\* the Certificates step is not reported as installed, and the pass does
\* not fail.
C14_CertificatesSkipped ==
    nonInteractive =>
        /\ ~Has(<<"install", "Certificates", "ok">>)
        /\ ~Has(<<"install", "Certificates", "fail">>)
        /\ ~Has(Spinner("success", "Certificates"))
        /\ pc = "done" => result = nil

\* C15: no installer is ever invoked for Git; every install attempt for
\* Git returns at once the error that carries the manual instructions, and
\* no step reports Git as installed.
C15_GitNeverAutomated ==
    /\ \A i \in DOMAIN trace : trace[i][1] = "install" => trace[i][2] # "Git"
    /\ ~Has(Spinner("success", "Git"))
    /\ \A i \in DOMAIN trace :
          trace[i] = Call("installTool", "Git") =>
              /\ i + 1 \in DOMAIN trace
              /\ trace[i + 1] = Ret("installTool", "git is not installed")
              /\ Has(Spinner("warning", "Git")) \/ Has(Spinner("fail", "Git"))

C15_Witness ==
    /\ ~nonInteractive
    /\ Has(<<"install", "Helm", "ok">>)
    /\ result = errInstall("Git")

IsInstallRet(e) == e[1] = "ret" /\ e[2] = "installTool"

\* C16: the install attempts do not overlap and follow the install list:
\* between two calls of installTool there is the return of the first, an
\* installer runs only between the call of its tool and the return of that
\* call, and the k-th attempt is for the k-th tool of the list.
C16_InstallersSerialized ==
    /\ Len(InstallCalls) <= Len(installable)
    /\ \A k \in 1..Len(InstallCalls) : InstallCalls[k][3] = installable[k].Name
    /\ \A i \in DOMAIN trace :
          IsInstallCall(trace[i]) =>
              \E j \in DOMAIN trace :
                  /\ j > i
                  /\ IsInstallRet(trace[j])
                  /\ \A m \in (i + 1)..(j - 1) :
                        ~IsInstallCall(trace[m]) /\ ~IsInstallRet(trace[m])
    /\ \A i \in DOMAIN trace :
          trace[i][1] = "install" =>
              \E c \in 1..(i - 1) :
                  /\ trace[c] = Call("installTool", trace[i][2])
                  /\ \A m \in (c + 1)..(i - 1) :
                        ~IsInstallCall(trace[m]) /\ ~IsInstallRet(trace[m])

C16_Witness ==
    /\ Len(InstallCalls) > 2
    /\ Has(<<"install", "Docker", "fail">>)
    /\ Has(<<"install", "k3d", "ok">>)

SecondDone == first # none /\ pc = "done"

\* C17 (as stated): two passes with the same flags, the same memory reading
\* and the same scan observations end with the same result.
C17_ResultFunctionOfInputs ==
    SecondDone => result = first.result

\* C17 (amended): two non-interactive passes with the same flags, the same
\* memory reading and the same scan observations end with the same result.
C17_NonInteractiveResultFunctionOfInputs ==
    (nonInteractive /\ SecondDone) => result = first.result

C17_Witness ==
    /\ nonInteractive
    /\ SecondDone
    /\ Has(<<"start", "Docker", "fail">>)
    /\ \E i \in DOMAIN first.trace : first.trace[i] = <<"wait", "Docker", "ok">>
    /\ \E i \in DOMAIN first.trace : first.trace[i] = <<"install", "kubectl", "fail">>
    /\ Has(<<"install", "kubectl", "ok">>)

\* C18: a pass with force set requests no confirmation.
C18_ForceNeverAsks ==
    force => \A i \in DOMAIN trace : trace[i][1] # "prompt"

\* C19: the Docker installer is never invoked; installers are invoked only
\* for kubectl, k3d, Helm and Certificates.
C19_DockerNeverInstalled ==
    \A i \in DOMAIN trace :
        trace[i][1] = "install" => trace[i][2] \in {"kubectl", "k3d", "Helm", "Certificates"}

MemoryAborted ==
    /\ pc = "done"
    /\ result \in {errInsufficientMemory, errMemoryConfirmation}
    /\ \A i \in DOMAIN trace : ~OtherAction(trace[i])

\* C20 (as stated): a pass with an insufficient reading, force unset and no
\* explicit yes of the user aborts at the memory check.
C20_InsufficientNeedsForceOrYes ==
    (MemInsufficient /\ ~force /\ pc # "memoryConfirm" /\ ~Answered(QMemory, "yes"))
        => MemoryAborted

\* C20 (amended): an interactive pass with an insufficient reading, force
\* unset and no explicit yes of the user aborts at the memory check; a
\* non-interactive pass goes on after the warning.
C20_InteractiveInsufficientNeedsForceOrYes ==
    (MemInsufficient /\ ~force /\ ~nonInteractive
        /\ pc # "memoryConfirm" /\ ~Answered(QMemory, "yes"))
        => MemoryAborted

C20_Witness ==
    /\ MemInsufficient
    /\ ~force
    /\ ~nonInteractive
    /\ Answered(QMemory, "enter")
    /\ MemoryAborted

ProbeEvents == SelectSeq(trace, LAMBDA e : e[1] = "probe")
ScanFinished == Has(Ret("checkMemory", "nil")) /\ pc # "scan"

\* C28: the scan probes the catalog in its order, each tool once; a pass
\* whose memory check returned nil and that has left the scan has probed
\* all six tools, whatever the probes returned; the missing list is the
\* list of the probed tools whose probe returned false, in catalog order,
\* and no tool is both present and missing.
C28_ScanProbesWholeCatalog ==
    /\ Len(ProbeEvents) = scanIdx - 1
    /\ \A k \in 1..Len(ProbeEvents) : ProbeEvents[k][2] = getAllTools[k].Name
    /\ ScanFinished => Len(ProbeEvents) = Len(getAllTools)
    /\ missing = SelectSeq(SubSeq(getAllTools, 1, scanIdx - 1),
                           LAMBDA t : Has(Probe(t.Name, FALSE)))
    /\ \A n \in ToolNames : ~(Has(Probe(n, TRUE)) /\ Has(Probe(n, FALSE)))
    /\ ScanFinished =>
          \A n \in ToolNames :
              Has(Probe(n, TRUE)) <=> ~(\E k \in 1..Len(missing) : missing[k].Name = n)

C28_Witness ==
    /\ ScanFinished
    /\ Has(Probe("Docker", FALSE))
    /\ Has(Probe("Helm", TRUE))
    /\ Has(Probe("Certificates", FALSE))
    /\ Len(missing) = 3

AllPresent == \A n \in ToolNames : Has(Probe(n, TRUE))

\* C29: a pass with a sufficient memory reading whose scan found every
\* tool present has returned success right after the last probe, without
\* prompt, Docker binary probe, install attempt, Docker start or wait.
C29_NothingToDo ==
    (Has(<<"memory", "GetMemoryInfo", "sufficient">>) /\ AllPresent) =>
        /\ pc = "done"
        /\ result = nil
        /\ trace[Len(trace)] = Ret("CheckAll", "nil")
        /\ trace[Len(trace) - 1] = Probe("Certificates", TRUE)
        /\ \A i \in DOMAIN trace :
              /\ trace[i][1] # "prompt"
              /\ OtherAction(trace[i]) => trace[i][1] = "probe"

C29_Witness ==
    /\ ~nonInteractive
    /\ ~force
    /\ Has(<<"memory", "GetMemoryInfo", "sufficient">>)
    /\ AllPresent

\* the phase an event belongs to: 1 memory check, 2 scan, 3 classify,
\* 4 install, 5 runtime start; 0 for messages
PhaseOf(e) ==
    CASE e[1] = "memory" \/ (e[1] = "prompt" /\ e[2] = QMemory)
            \/ (e[1] \in {"call", "ret"} /\ e[2] = "checkMemory") -> 1
      [] e[1] = "probe" -> 2
      [] e[1] = "binary" -> 3
      [] e[1] = "install" \/ (e[1] = "prompt" /\ e[2] = QInstall)
            \/ (e[1] \in {"call", "ret"} /\ e[2] \in {"installTools", "installTool"}) -> 4
      [] e[1] \in {"start", "wait"} \/ (e[1] = "prompt" /\ e[2] = QDocker)
            \/ (e[1] \in {"call", "ret"} /\ e[2] = "startDocker") -> 5
      [] OTHER -> 0

\* C30: the events of a pass come in the order memory check, scan,
\* classify, install, runtime start; startDocker is entered only when no
\* install attempt is left, after installTools returned if the install
\* list is not empty, and no install attempt follows.
C30_PhaseOrder ==
    /\ \A i, j \in DOMAIN trace :
          (i < j /\ PhaseOf(trace[i]) > 0 /\ PhaseOf(trace[j]) > 0) =>
              PhaseOf(trace[i]) <= PhaseOf(trace[j])
    /\ Has(Call("startDocker", "")) =>
          /\ pc \notin {"installConfirm", "install"}
          /\ Len(installable) > 0 =>
                (Has(Ret("installTools", "nil")) /\ Len(InstallCalls) = Len(installable))

C30_Witness ==
    /\ Has(<<"install", "Docker", "fail">>) \/ Has(<<"install", "kubectl", "ok">>)
    /\ Len(InstallCalls) > 1
    /\ Has(<<"wait", "Docker", "ok">>)

----------------------------------------------------------------------------
(* Properties of a bootstrap run, stated over its ledger and the host *)

Ledger(e) == \E i \in DOMAIN run.ledger : run.ledger[i] = e
LedgerBefore(e, i) == \E j \in 1..(i - 1) : run.ledger[j] = e
ChartStates == {"install_controller", "register_root", "await_convergence"}
LaterStates == {"create_cluster", "summarize", "rollback"} \cup ChartStates

\* C21: in every run, create_cluster begins only after the preflight
\* ended with the decision proceed; the chart states begin only after
\* create_cluster ended with success and left the handle; after a
\* preflight that decided abort no later state has begun and the host is
\* as the run found it.
C21_PhasesInOrder ==
    /\ \A i \in DOMAIN run.ledger :
          LET e == run.ledger[i]
          IN  /\ e[1] = "create_cluster" =>
                    /\ LedgerBefore(<<"preflight", "end", "proceed">>, i)
                    /\ preflightDecision(env.failAt) = "proceed"
              /\ e[1] \in ChartStates =>
                    /\ LedgerBefore(<<"create_cluster", "end", "ok">>, i)
                    /\ run.handle = RunName
                    /\ run.created
              /\ e[1] \in {"register_root", "await_convergence"} =>
                    LedgerBefore(<<"install_controller", "end", "ok">>, i)
    /\ (Ledger(<<"preflight", "end", "preflight.abort">>)
            \/ (preflightDecision(env.failAt) = "abort"
                    /\ \E i \in DOMAIN run.ledger :
                          run.ledger[i][1] = "preflight" /\ run.ledger[i][2] = "end")) =>
          /\ run.state = "end"
          /\ \A i \in DOMAIN run.ledger : run.ledger[i][1] \notin LaterStates
          /\ ~run.created
          /\ deletes = <<>> => host.clusters = run.before

C21_Witness ==
    /\ run.no = 1
    /\ Ledger(<<"register_root", "end", "ok">>)
    /\ OwnCluster(run) \in host.roots

\* C22: a run never removes a cluster it found on the host, whatever its
\* name; a run that created its cluster and then was canceled, or failed
\* in interactive mode without --force with a failure that is rolled back
\* (API unreachable, chart install), ends with that cluster deleted; a run
\* that found a cluster of its name creates nothing: its create_cluster
\* ends with cluster.name-conflict, unless canceled first.
C22_RollbackSparesOthers ==
    /\ deletes = <<>> => run.before \subseteq host.clusters
    /\ (/\ run.state = "end"
        /\ run.created
        /\ \/ run.outcome = "canceled"
           \/ /\ ~nonInteractive
              /\ ~force
              /\ run.outcome \in {"cluster.api-unreachable", "chart.install"}) =>
          /\ OwnCluster(run) \notin host.clusters
          /\ OwnCluster(run) \notin host.releases \cup host.roots
    /\ (\E c \in run.before : c.name = RunName) =>
          /\ ~run.created
          /\ \A i \in DOMAIN run.ledger :
                (run.ledger[i][1] = "create_cluster" /\ run.ledger[i][2] = "end") =>
                    run.ledger[i][3] \in {"cluster.name-conflict", "canceled"}

C22_Witness ==
    /\ run.state = "end"
    /\ run.created
    /\ run.outcome = "chart.install"
    /\ Ledger(<<"rollback", "end", "ok">>)
    /\ [name |-> "other", born |-> 0] \in host.clusters
    /\ OwnCluster(run) \notin host.clusters

RunFailed == run.outcome \notin {"running", "ok", "canceled"}

\* C23: a run that failed has gone through the rollback only if it was
\* interactive and without --force; a failed run that is non-interactive
\* or has --force never enters the rollback and leaves on the host the
\* cluster, the controller release and the root application it made.
C23_RollbackOnlyInteractiveUnforced ==
    /\ (RunFailed /\ \E i \in DOMAIN run.ledger : run.ledger[i][1] = "rollback") =>
          (~nonInteractive /\ ~force)
    /\ (RunFailed /\ (nonInteractive \/ force)) =>
          /\ run.state = "end"
          /\ \A i \in DOMAIN run.ledger : run.ledger[i][1] # "rollback"
          /\ deletes = <<>> =>
                /\ run.created => OwnCluster(run) \in host.clusters
                /\ Ledger(<<"install_controller", "end", "ok">>) =>
                      OwnCluster(run) \in host.releases
                /\ Ledger(<<"register_root", "end", "ok">>) =>
                      OwnCluster(run) \in host.roots

C23_Witness ==
    /\ run.state = "end"
    /\ nonInteractive
    /\ ~force
    /\ run.created
    /\ run.outcome = "chart.install"
    /\ OwnCluster(run) \in host.releases

\* C26: when the same bootstrap command is run again on the host that a
\* run on an empty host left, in the same environment, the host it leaves
\* is the host the first run left: same clusters, each the one born in the
\* first run, same releases and root applications.
C26_BootstrapTwiceIsOnce ==
    (Len(ends) > 0 /\ ends[1].before = {}) =>
        /\ \A i \in DOMAIN ends : ends[i].host = ends[1].host
        /\ (run.state = "end" /\ deletes = <<>>) => host = ends[1].host

C26_Witness ==
    /\ Len(ends) = 1
    /\ ends[1].before = {}
    /\ ends[1].outcome = "ok"
    /\ run.state = "end"
    /\ run.outcome = "cluster.name-conflict"
    /\ host.roots = {[name |-> RunName, born |-> 1]}

\* C27: delete(name) returns success whether or not the cluster exists,
\* leaves no cluster of that name, and on a missing cluster changes
\* nothing; a second delete(name) right after the first returns the same
\* error and leaves the same host.
C27_DeleteIdempotent ==
    \A i \in DOMAIN deletes :
        LET d == deletes[i]
        IN  /\ d.err = "nil"
            /\ ~(\E c \in d.after.clusters : c.name = d.name)
            /\ ~(\E c \in d.before.clusters : c.name = d.name) =>
                  (d.after = d.before /\ d.info = "not found")
            /\ (i > 1 /\ deletes[i - 1].name = d.name) =>
                  /\ d.after = deletes[i - 1].after
                  /\ d.err = deletes[i - 1].err

C27_Witness ==
    /\ Len(deletes) = 2
    /\ deletes[1].name = deletes[2].name
    /\ deletes[1].info = "deleted"
    /\ deletes[2].info = "not found"
    /\ deletes[1].before.clusters # {}

----------------------------------------------------------------------------
(* Properties of the convergence monitor *)

AllSyncedHealthy == \A a \in known : snapshot[a] = SH
Max(a, b) == IF a > b THEN a ELSE b

\* C24 as stated: the wait returns ok iff a tick before the deadline
\* observed every known application (Synced, Healthy), and every other
\* result is timeout with the last snapshot.
C24_OkElseTimeout ==
    /\ verdict.kind = "ok" =>
          (AllSyncedHealthy /\ observed >= 1 /\ elapsed <= deadline)
    /\ (observed >= 1 /\ AllSyncedHealthy) => verdict.kind = "ok"
    /\ verdict.kind \notin {"running", "ok"} =>
          (verdict.kind = "timeout" /\ verdict.snapshot = snapshot)

\* C24: the wait returns ok iff a tick before the deadline observed every
\* known application (Synced, Healthy); every other result is timeout,
\* returned once the deadline is reached, or stuck, and both carry the
\* last snapshot.
C24_OkElseTimeoutOrStuck ==
    /\ verdict.kind = "ok" =>
          (AllSyncedHealthy /\ observed >= 1 /\ elapsed <= deadline)
    /\ (observed >= 1 /\ AllSyncedHealthy) => verdict.kind = "ok"
    /\ verdict.kind \notin {"running", "ok"} =>
          /\ verdict.kind \in {"timeout", "stuck"}
          /\ verdict.snapshot = snapshot
          /\ ~(observed >= 1 /\ AllSyncedHealthy)
    /\ verdict.kind = "timeout" => elapsed >= deadline

C24_Witness ==
    /\ verdict.kind = "ok"
    /\ known = Apps
    /\ observed >= 2
    /\ elapsed < deadline

\* C25: the "stuck" counter of an application counts only observed ticks,
\* all after the last tick that discovered an application, on which the
\* application was Degraded or Missing with its present message; stuck is
\* reported for an application and its message only when that makes at
\* least 5 ticks in a row.  Ticks whose listing failed are not
\* among the observed ticks.
C25_StuckAfterQuietWindow ==
    /\ \A a \in Apps :
          stuckCount[a] > 0 =>
              /\ Unhealthy(snapshot[a])
              /\ since[a] >= 1
              /\ stuckCount[a] <= observed - Max(since[a] - 1, lastNew)
    /\ verdict.kind = "stuck" =>
          /\ verdict.app \in known
          /\ Unhealthy(snapshot[verdict.app])
          /\ snapshot[verdict.app].msg = verdict.msg
          /\ observed - since[verdict.app] + 1 >= 5
          /\ lastNew + 5 <= observed

C25_Witness ==
    /\ verdict.kind = "stuck"
    /\ lastNew >= 1
    /\ elapsed > observed
    /\ observed = lastNew + 5

----------------------------------------------------------------------------
(* Further properties of a pass *)

\* C31: a non-interactive pass never returns an error: its memory check
\* and its startDocker return nil, and when it is done its result is nil,
\* whatever the reading, the probes, the installers, the start and the
\* wait returned and whatever force is.
C31_NonInteractiveNeverAborts ==
    nonInteractive =>
        /\ result \in {pending, nil}
        /\ pc = "done" => result = nil
        /\ ~Has(Ret("checkMemory", "error"))
        /\ ~Has(Ret("startDocker", "error"))
        /\ \A i \in DOMAIN trace : trace[i][1] # "prompt"

C31_Witness ==
    /\ nonInteractive
    /\ ~force
    /\ pc = "done"
    /\ result = nil
    /\ MemInsufficient
    /\ Has(<<"install", "kubectl", "fail">>)
    /\ Has(Ret("installTool", "git is not installed"))
    /\ Has(<<"start", "Docker", "fail">>)

IsInstallEvent(e) == e[1] = "install"
ToolOf(e) == IF IsInstallCall(e) THEN e[3] ELSE e[2]

\* C32: installTool is called, and an installer invoked, only for a tool
\* whose probe returned false and never for one whose probe returned
\* true, at most once per tool; when the Docker binary is installed no
\* install attempt is made for Docker.
C32_InstallOnlyMissingOnce ==
    /\ \A i \in DOMAIN trace :
          (IsInstallCall(trace[i]) \/ IsInstallEvent(trace[i])) =>
              /\ Has(Probe(ToolOf(trace[i]), FALSE))
              /\ ~Has(Probe(ToolOf(trace[i]), TRUE))
              /\ \A j \in DOMAIN trace :
                    (j # i /\ trace[j][1] = trace[i][1]
                          /\ (IsInstallCall(trace[j]) \/ IsInstallEvent(trace[j]))
                          /\ ToolOf(trace[j]) = ToolOf(trace[i])) => FALSE
    /\ Has(<<"binary", "Docker", "present">>) =>
          \A i \in DOMAIN trace :
              (IsInstallCall(trace[i]) \/ IsInstallEvent(trace[i])) =>
                  ToolOf(trace[i]) # "Docker"

C32_Witness ==
    /\ pc = "done"
    /\ Has(<<"binary", "Docker", "present">>)
    /\ Has(Probe("Helm", TRUE))
    /\ Has(<<"install", "kubectl", "ok">>)
    /\ Has(<<"install", "k3d", "fail">>)

\* an event of startDocker
IsStartDocker(e) ==
    \/ e[1] \in {"start", "wait"}
    \/ e[1] = "prompt" /\ e[2] = QDocker
    \/ e[1] \in {"call", "ret"} /\ e[2] = "startDocker"

\* C33: startDocker is entered only in a pass whose scan found Docker not
\* running and whose classification found the Docker binary installed; a
\* pass whose classification found the binary absent has no Docker prompt,
\* start or wait, also after the Docker installer reported success, and
\* probes Docker only once, at the scan.
C33_StartOnlyWhenDormant ==
    /\ (\E i \in DOMAIN trace : IsStartDocker(trace[i])) =>
          /\ dockerNotRunning
          /\ Has(Probe("Docker", FALSE))
          /\ Has(<<"binary", "Docker", "present">>)
    /\ Has(<<"binary", "Docker", "missing">>) =>
          /\ ~dockerNotRunning
          /\ \A i \in DOMAIN trace : ~IsStartDocker(trace[i])
          /\ Cardinality({i \in DOMAIN trace :
                            trace[i][1] = "probe" /\ trace[i][2] = "Docker"}) = 1

C33_Witness ==
    /\ pc = "done"
    /\ result = nil
    /\ Has(<<"binary", "Docker", "missing">>)
    /\ Has(<<"install", "Docker", "ok">>)
    /\ \A i \in DOMAIN trace : ~IsStartDocker(trace[i])

\* the error checkMemory and startDocker return when their prompt fails
PromptError(q) ==
    IF q = QMemory THEN errMemoryConfirmation ELSE errDockerConfirmation

\* C35: when a confirmation prompt fails, the pass is done with an error,
\* the confirmation error of that prompt for the memory and the Docker
\* prompt, and nothing follows the prompt: no probe, prompt, installTool
\* call, installer, Docker start or wait.
C35_FailedPromptAborts ==
    \A i \in DOMAIN trace :
        (trace[i][1] = "prompt" /\ trace[i][4] = "interrupt") =>
            /\ pc = "done"
            /\ result \notin {pending, nil}
            /\ trace[i][2] \in {QMemory, QDocker} => result = PromptError(trace[i][2])
            /\ \A j \in (i + 1)..Len(trace) :
                  /\ trace[j][1] \notin {"probe", "binary", "prompt", "install", "start", "wait", "help"}
                  /\ trace[j][1] # "call"

C35_Witness ==
    /\ Has(<<"install", "kubectl", "ok">>)
    /\ Answered(QDocker, "interrupt")
    /\ result = errDockerConfirmation

Count(P(_)) == Cardinality({i \in DOMAIN trace : P(trace[i])})
IsPrompt(e) == e[1] = "prompt"

\* the resources of a pass: at most one installTool call per catalog
\* entry, one Docker start, one wait, three prompts (one per question);
\* every phase is entered at most once and every tool probed once
PassBounded ==
    /\ \A n \in ToolNames :
          /\ Count(LAMBDA e : IsInstallCall(e) /\ e[3] = n) <= 1
          /\ Count(LAMBDA e : e[1] = "probe" /\ e[2] = n) <= 1
    /\ \A i \in DOMAIN trace : IsInstallCall(trace[i]) => trace[i][3] \in ToolNames
    /\ Count(IsStart) <= 1
    /\ Count(LAMBDA e : e[1] = "wait") <= 1
    /\ Count(IsPrompt) <= 3
    /\ \A q \in {QMemory, QInstall, QDocker} : Cardinality(PromptsOf(q)) <= 1
    /\ \A fn \in {"checkMemory", "installTools", "startDocker"} :
          Count(LAMBDA e : e = Call(fn, "")) <= 1
    /\ (pc = "done") <=> (result # pending)

\* C36: a pass whose external calls all return ends, with success or with
\* an error, and stays within its resources all along.
C36_TerminatesBounded == <>(pc = "done") /\ []PassBounded

C36_Witness ==
    /\ pc = "done"
    /\ result = nil
    /\ Count(IsPrompt) = 3
    /\ Count(IsInstallCall) = 4
    /\ Count(IsStart) = 1

\* the probes, prompts, installTool calls, installer invocations, Docker
\* starts and waits of a pass, in order
ActionsOf(t) ==
    SelectSeq(t, LAMBDA e : e[1] \in {"probe", "prompt", "install", "start", "wait"}
                            \/ IsInstallCall(e))

BothDone == first # none /\ pc = "done"

====
